---------------------------- MODULE Spec2Model ----------------------------
(***************************************************************************)
(* A model of the AI Tour Guide (src/app.py): the itinerary generator      *)
(* generate_itinerary with its helpers haversine, travel_time_hours,       *)
(* score_poi and recompute_day_times, and the Streamlit script around it   *)
(* (session state, the reactive regeneration block, the move-up,           *)
(* move-down and remove buttons).                                          *)
(*                                                                         *)
(* Units.  The code computes with floats; the model computes with          *)
(* integers in fixed units:                                                *)
(*   coordinates  hundredths of a degree (lat is 0 for every point of the  *)
(*                model: on the equator the haversine formula reduces to   *)
(*                R * |dlon| in radians, which integers can compute)       *)
(*   distances    metres                                                   *)
(*   times        seconds (a datetime is the number of seconds since       *)
(*                1900-01-01 00:00, the date strptime gives a bare time)   *)
(*   scores       1/1800 of a point, so that 5 - duration * 2, with the    *)
(*                duration in seconds, stays an integer                    *)
(* A string is a sequence of one-character strings, so that parsing and    *)
(* formatting a time are computed, not assumed.                            *)
(***************************************************************************)
EXTENDS Integers, Sequences, FiniteSets, TLC

VARIABLES
    \* generate_itinerary: its arguments
    city_pois, days, travel_style, start_time_str, stay_coord, day_hours_budget,
    \* generate_itinerary: its locals and its position
    center, remaining_pois, itinerary, day, time_used, cursor, day_pois, pc,
    \* the script: st.session_state, the sidebar's widget values, its position
    session, current_params, app_pc,
    \* history: the parameters the held itinerary was generated from, and the
    \* names each of its days had when it was generated
    generated_from, generated_names

gen_args == <<city_pois, days, travel_style, start_time_str, stay_coord, day_hours_budget>>
gen_locals == <<center, remaining_pois, itinerary, day, time_used, cursor, day_pois, pc>>
app_vars == <<session, current_params, app_pc, generated_from, generated_names>>
vars == <<gen_args, gen_locals, app_vars>>

----------------------------------------------------------------------------
(* Bounds of the model *)

\* the longest POI pool handed to generate_itinerary
MaxPool == 3
\* the largest day count handed to generate_itinerary
MaxDays == 2

----------------------------------------------------------------------------
(* Program constants *)

\* pi * R with R = 6371.0 km, in units of 10 m: half a great circle
HalfTurnDam == 2001509
avg_speed_kmph == 30
\* the floor of travel_time_hours: 0.25 h
MinTravel == 900
\* score_poi: 10 points for a matching tag, 5 points less 2 per hour
TagBonus == 18000
BaseScore == 9000
\* poi.get("duration", 1): one hour
DefaultDuration == 3600
\* timedelta(minutes=30) after every visit
BufferSeconds == 1800
\* day_hours_budget: float = 8.5
DefaultBudget == 30600

\* Python's None; also the only other falsy value an optional tuple can take
None == <<>>
\* the value strptime's ValueError is modelled by
ValueError == -1

----------------------------------------------------------------------------
(* Small helpers *)

Abs(n) == IF n < 0 THEN -n ELSE n
Max(a, b) == IF a >= b THEN a ELSE b

\* dict.get(key, default)
Get(d, key, default) == IF key \in DOMAIN d THEN d[key] ELSE default

RECURSIVE SumSeq(_, _)
SumSeq(s, i) == IF i = 0 THEN 0 ELSE s[i] + SumSeq(s, i - 1)

\* the order of the two-part keys (k1, k2) Python compares as tuples
KeyLess(a, b) == a[1] < b[1] \/ (a[1] = b[1] /\ a[2] < b[2])

\* Python's sort is stable: index i goes after every index already placed
\* whose key is not greater than its own
InsertStable(i, order, keys) ==
    LET n == Cardinality({j \in 1..Len(order) : ~KeyLess(keys[i], keys[order[j]])})
    IN SubSeq(order, 1, n) \o <<i>> \o SubSeq(order, n + 1, Len(order))

\* the indices 1..n in the sorted order of their keys
RECURSIVE SortedOrder(_, _)
SortedOrder(keys, n) ==
    IF n = 0 THEN <<>> ELSE InsertStable(n, SortedOrder(keys, n - 1), keys)

\* sorted(items, key=...), keys[i] being the key of items[i]
sorted(items, keys) ==
    LET order == SortedOrder(keys, Len(items))
    IN [j \in 1..Len(items) |-> items[order[j]]]

----------------------------------------------------------------------------
(* Strings of time: datetime.strptime(s, "%H:%M") and strftime("%H:%M") *)

Digits == <<"0", "1", "2", "3", "4", "5", "6", "7", "8", "9">>
IsDigit(c) == \E i \in 1..10 : Digits[i] = c
DigitVal(c) == (CHOOSE i \in 1..10 : Digits[i] = c) - 1

\* a run of one or two digits, as %H and %M accept it
IsNumeral(s) == Len(s) \in {1, 2} /\ \A i \in 1..Len(s) : IsDigit(s[i])
NumeralVal(s) == IF Len(s) = 1 THEN DigitVal(s[1]) ELSE 10 * DigitVal(s[1]) + DigitVal(s[2])

\* the datetime parsed from s, or ValueError when s is not H:M with H <= 23, M <= 59
strptime(s) ==
    LET colons == {i \in 1..Len(s) : s[i] = ":"}
    IN IF Cardinality(colons) # 1 THEN ValueError
       ELSE LET k == CHOOSE i \in colons : TRUE
                h == SubSeq(s, 1, k - 1)
                m == SubSeq(s, k + 1, Len(s))
            IN IF IsNumeral(h) /\ IsNumeral(m) /\ NumeralVal(h) <= 23 /\ NumeralVal(m) <= 59
               THEN NumeralVal(h) * 3600 + NumeralVal(m) * 60
               ELSE ValueError

\* the hour and minute of a datetime, zero-padded; the date is not printed
strftime(t) ==
    LET h == (t \div 3600) % 24
        m == (t \div 60) % 60
    IN <<Digits[(h \div 10) + 1], Digits[(h % 10) + 1], ":",
         Digits[(m \div 10) + 1], Digits[(m % 10) + 1]>>

\* Python's order of str, on the characters a time string holds
Ord(c) == IF c = ":" THEN 10 ELSE DigitVal(c)
RECURSIVE StrLeq(_, _)
StrLeq(s, t) ==
    IF s = <<>> THEN TRUE
    ELSE IF t = <<>> THEN FALSE
    ELSE IF Ord(Head(s)) # Ord(Head(t)) THEN Ord(Head(s)) < Ord(Head(t))
    ELSE StrLeq(Tail(s), Tail(t))

----------------------------------------------------------------------------
(* Distance, travel time, relevance *)

\* great-circle distance in metres between two points of the equator
haversine(lat1, lon1, lat2, lon2) == (HalfTurnDam * Abs(lon2 - lon1)) \div 1800

\* seconds at avg_speed_kmph, at least MinTravel
travel_time_hours(p1, p2) ==
    Max(MinTravel, (haversine(p1.lat, p1.lon, p2.lat, p2.lon) * 36) \div (avg_speed_kmph * 10))

Duration(poi) == Get(poi, "duration", DefaultDuration)

score_poi(poi, style) ==
    (IF style \in Get(poi, "tags", {}) THEN TagBonus ELSE 0)
        + Max(0, BaseScore - Duration(poi))

----------------------------------------------------------------------------
(* recompute_day_times *)

\* poi.copy() with start_time and end_time set (an entry stamped before is overwritten)
Stamped(poi, start_time, end_time) ==
    [k \in DOMAIN poi \cup {"start_time", "end_time"} |->
        IF k = "start_time" THEN strftime(start_time)
        ELSE IF k = "end_time" THEN strftime(end_time)
        ELSE poi[k]]

\* the variant without the buffer: the cursor stays at end_time
AdvanceCursorNoBuffer(end_time) == end_time

\* time_cursor = end_time + timedelta(minutes=30)
AdvanceCursor(end_time) == end_time + BufferSeconds

\* the loop over day_activities from entry i on; new_list holds the entries done,
\* the last of them being prev_poi
RECURSIVE StampFrom(_, _, _, _)
StampFrom(day_activities, i, time_cursor, new_list) ==
    IF i > Len(day_activities) THEN new_list
    ELSE LET poi == day_activities[i]
             start_time == IF new_list # <<>>
                           THEN time_cursor + travel_time_hours(new_list[Len(new_list)], poi)
                           ELSE time_cursor
             end_time == start_time + Duration(poi)
         IN StampFrom(day_activities, i + 1, AdvanceCursor(end_time),
                      Append(new_list, Stamped(poi, start_time, end_time)))

\* defined when strptime(start) is a datetime; the callers raise otherwise
recompute_day_times(day_activities, start) ==
    StampFrom(day_activities, 1, strptime(start), <<>>)

----------------------------------------------------------------------------
(* generate_itinerary, one action per step *)

Raised == {"ZeroDivisionError", "IndexError", "ValueError"}

\* sorted(..., key=score_poi, reverse=True): descending, equal scores in the
\* order they came in
ByScoreDesc(list, style) ==
    sorted(list, [i \in 1..Len(list) |-> <<-score_poi(list[i], style), 0>>])

\* the variant that ranks by distance first and by score second
CandidateKeyByDistance(c, style) == <<c[2], -score_poi(c[1], style)>>

\* the key (-score, distance) of a candidate c = (p, dist)
CandidateKey(c, style) == <<-score_poi(c[1], style), c[2]>>

Candidates(remaining, cur, style) ==
    LET pairs == [i \in 1..Len(remaining) |->
                    <<remaining[i],
                      haversine(cur.lat, cur.lon, remaining[i].lat, remaining[i].lon)>>]
    IN sorted(pairs, [i \in 1..Len(pairs) |-> CandidateKey(pairs[i], style)])

\* the variant that leaves the travel time out of the test
FitsIgnoringTravel(used, travel_h, p, budget) == used + Duration(p) <= budget

\* time_used + travel_h + p.get("duration", 1) <= day_hours_budget
Fits(used, travel_h, p, budget) == used + travel_h + Duration(p) <= budget

\* the variant that tries the best-ranked candidate only
FirstFitHeadOnly(candidates, used, cur, budget) ==
    IF /\ candidates # <<>>
       /\ used + travel_time_hours(cur, candidates[1][1]) + Duration(candidates[1][1]) <= budget
    THEN 1 ELSE 0

\* the index of the first candidate that fits, 0 when none does (picked_poi = None)
FirstFit(candidates, used, cur, budget) ==
    LET fit == {i \in 1..Len(candidates) :
                   Fits(used, travel_time_hours(cur, candidates[i][1]), candidates[i][1], budget)}
    IN IF fit = {} THEN 0 ELSE CHOOSE i \in fit : \A j \in fit : i <= j

\* the variant that removes the picked record only, not every record of its name
RemovePickedRecord(remaining, picked) ==
    SelectSeq(remaining, LAMBDA r : r # picked)

\* [r for r in remaining_pois if r["name"] != picked_poi["name"]]
RemovePicked(remaining, picked) ==
    SelectSeq(remaining, LAMBDA r : r.name # picked.name)

\* lines 97-103: the ranked copy, the center, the empty itinerary
GenBegin ==
    /\ pc = "call"
    /\ LET pois == ByScoreDesc(city_pois, travel_style)
           lons == [i \in 1..Len(pois) |-> pois[i].lon]
           lats == [i \in 1..Len(pois) |-> pois[i].lat]
       IN IF stay_coord = None /\ Len(pois) = 0
          THEN /\ pc' = "ZeroDivisionError"
               /\ UNCHANGED <<center, remaining_pois, itinerary, day>>
          ELSE IF stay_coord # None /\ Len(stay_coord) < 2
          THEN /\ pc' = "IndexError"
               /\ UNCHANGED <<center, remaining_pois, itinerary, day>>
          ELSE /\ center' = IF stay_coord # None
                            THEN [lat |-> stay_coord[1], lon |-> stay_coord[2]]
                            ELSE [lat |-> SumSeq(lats, Len(lats)) \div Len(pois),
                                  lon |-> SumSeq(lons, Len(lons)) \div Len(pois)]
               /\ remaining_pois' = pois
               /\ itinerary' = [d \in 1..days |-> <<>>]
               /\ day' = 1
               /\ pc' = "day"
    /\ UNCHANGED <<gen_args, time_used, cursor, day_pois, app_vars>>

\* lines 105-108: the next day starts at the center with nothing used
DayBegin ==
    /\ pc = "day"
    /\ day <= days
    /\ time_used' = 0
    /\ cursor' = [lat |-> center.lat, lon |-> center.lon, name |-> "Start"]
    /\ day_pois' = <<>>
    /\ pc' = "loop"
    /\ UNCHANGED <<gen_args, center, remaining_pois, itinerary, day, app_vars>>

\* lines 109-131, an iteration that picks
Pick ==
    /\ pc = "loop"
    /\ remaining_pois # <<>>
    /\ LET candidates == Candidates(remaining_pois, cursor, travel_style)
           k == FirstFit(candidates, time_used, cursor, day_hours_budget)
       IN /\ k # 0
          /\ LET picked_poi == candidates[k][1]
                 travel_h == travel_time_hours(cursor, picked_poi)
             IN /\ day_pois' = Append(day_pois, picked_poi)
                /\ time_used' = time_used + travel_h + Duration(picked_poi)
                /\ cursor' = picked_poi
                /\ remaining_pois' = RemovePicked(remaining_pois, picked_poi)
    /\ UNCHANGED <<gen_args, center, itinerary, day, pc, app_vars>>

\* lines 109 and 125: the pool is empty, or no candidate fits
EndDay ==
    /\ pc = "loop"
    /\ \/ remaining_pois = <<>>
       \/ FirstFit(Candidates(remaining_pois, cursor, travel_style),
                   time_used, cursor, day_hours_budget) = 0
    /\ pc' = "stamp"
    /\ UNCHANGED <<gen_args, center, remaining_pois, itinerary, day, time_used, cursor,
                   day_pois, app_vars>>

\* line 133: the day's list gets its times, or strptime raises
StampDay ==
    /\ pc = "stamp"
    /\ IF strptime(start_time_str) = ValueError
       THEN /\ pc' = "ValueError"
            /\ UNCHANGED <<itinerary, day>>
       ELSE /\ itinerary' = [itinerary EXCEPT ![day] = recompute_day_times(day_pois, start_time_str)]
            /\ day' = day + 1
            /\ pc' = "day"
    /\ UNCHANGED <<gen_args, center, remaining_pois, time_used, cursor, day_pois, app_vars>>

\* line 135
Return ==
    /\ pc = "day"
    /\ day > days
    /\ pc' = "returned"
    /\ UNCHANGED <<gen_args, center, remaining_pois, itinerary, day, time_used, cursor,
                   day_pois, app_vars>>

GenNext == GenBegin \/ DayBegin \/ Pick \/ EndDay \/ StampDay \/ Return

----------------------------------------------------------------------------
(* The inputs generate_itinerary is checked on *)

PoiA == [name |-> "A", lat |-> 0, lon |-> 0, duration |-> 3600, tags |-> {"family"}]
PoiB == [name |-> "B", lat |-> 0, lon |-> 100, duration |-> 3600, tags |-> {}]
PoiC == [name |-> "C", lat |-> 0, lon |-> 5, duration |-> 10800, tags |-> {"cultural"}]
\* no duration: an hour by default
PoiD == [name |-> "D", lat |-> 0, lon |-> 50, tags |-> {"family", "cultural"}]
\* a second record named "A", and no tags
PoiA2 == [name |-> "A", lat |-> 0, lon |-> 60, duration |-> 1800]
Pois == {PoiA, PoiB, PoiC, PoiD, PoiA2}

\* the lists of at most n different records
Pools(n) ==
    UNION {{s \in [1..k -> Pois] : \A i, j \in 1..k : i # j => s[i] # s[j]} : k \in 0..n}

Styles == {"family", "cultural"}
T0900 == <<"0", "9", ":", "0", "0">>
T2230 == <<"2", "2", ":", "3", "0">>
TBad == <<"9", "a", "m">>
StartTimes == {T0900, T2230, TBad}
\* no stay, a pair, and the 1-tuple a stay text without a comma parses to
StayCoords == {None, <<0, 40>>, <<40>>}
Budgets == {DefaultBudget, DefaultBudget \div 2}

Names(list) == [i \in 1..Len(list) |-> list[i].name]

NoLocals ==
    /\ center = None
    /\ remaining_pois = <<>>
    /\ itinerary = <<>>
    /\ day = 0
    /\ time_used = 0
    /\ cursor = None
    /\ day_pois = <<>>

NoApp ==
    /\ session = None
    /\ current_params = None
    /\ app_pc = "none"
    /\ generated_from = None
    /\ generated_names = <<>>

GenInit ==
    /\ city_pois \in Pools(MaxPool)
    /\ days \in 0..MaxDays
    /\ travel_style \in Styles
    /\ start_time_str \in StartTimes
    /\ stay_coord \in StayCoords
    /\ day_hours_budget \in Budgets
    /\ pc = "call"
    /\ NoLocals
    /\ NoApp

SpecGen == GenInit /\ [][GenNext]_vars

----------------------------------------------------------------------------
(* The stay's "lat,lon" text: stay_loc.split(","), x.strip(), float(x) *)

\* s.split(","): the pieces between the commas
RECURSIVE Split(_, _, _)
Split(s, i, piece) ==
    IF i > Len(s) THEN <<piece>>
    ELSE IF s[i] = "," THEN <<piece>> \o Split(s, i + 1, <<>>)
    ELSE Split(s, i + 1, Append(piece, s[i]))

\* x.strip(), of spaces
RECURSIVE Strip(_)
Strip(x) ==
    IF x # <<>> /\ Head(x) = " " THEN Strip(Tail(x))
    ELSE IF x # <<>> /\ x[Len(x)] = " " THEN Strip(SubSeq(x, 1, Len(x) - 1))
    ELSE x

RECURSIVE DigitsVal(_, _)
DigitsVal(x, i) == IF i = 0 THEN 0 ELSE 10 * DigitsVal(x, i - 1) + DigitVal(x[i])

\* float(x) in hundredths, for the decimals the model types in: digits, then
\* at most a point and one or two digits; anything else the model types in is
\* not a number, and float raises ValueError
Float(x) ==
    LET points == {i \in 1..Len(x) : x[i] = "."}
        k == IF points = {} THEN Len(x) + 1 ELSE CHOOSE i \in points : TRUE
        whole == SubSeq(x, 1, k - 1)
        frac == SubSeq(x, k + 1, Len(x))
    IN IF /\ Cardinality(points) <= 1
          /\ whole # <<>>
          /\ Len(frac) <= 2
          /\ \A i \in 1..Len(x) : i # k => IsDigit(x[i])
       THEN 100 * DigitsVal(whole, Len(whole))
            + (IF Len(frac) = 0 THEN 0
               ELSE IF Len(frac) = 1 THEN 10 * DigitVal(frac[1])
               ELSE DigitsVal(frac, 2))
       ELSE ValueError

\* line 167: the floats of the pieces of a text that is not empty
StayFloats(stay_loc) ==
    LET pieces == Split(stay_loc, 1, <<>>)
    IN [i \in 1..Len(pieces) |-> Float(Strip(pieces[i]))]

\* line 167 raises: a piece of the text is not a number
StayRaises(stay_loc) ==
    stay_loc # <<>> /\ \E i \in 1..Len(StayFloats(stay_loc)) : StayFloats(stay_loc)[i] = ValueError

\* line 167: None for an empty text, the tuple of floats otherwise
ParseStay(stay_loc) == IF stay_loc = <<>> THEN None ELSE StayFloats(stay_loc)

----------------------------------------------------------------------------
(* The script: session state, the regeneration block, the buttons *)

\* the POI catalog of module Pois, which the script imports
POIS_BY_STATE ==
    [S1 |-> [P |-> <<PoiA, PoiC, PoiD>>],
     S2 |-> [R |-> <<PoiB, PoiD>>]]

\* what the sidebar can hold: the model's choices of each widget
DayChoices == {1, 3}
StyleChoices == {"cultural"}
StartTexts == {T0900, TBad}
StayTexts == {<<>>, <<"0", ",", " ", "0", ".", "4">>, <<"a", "b", "c">>}
Params ==
    {p \in [state : DOMAIN POIS_BY_STATE, city : {"P", "R"}, days : DayChoices,
            travel_style : StyleChoices, start_time : StartTexts, stay_loc : StayTexts] :
        p.city \in DOMAIN POIS_BY_STATE[p.state]}

\* the widgets' values in a session's first run
Defaults ==
    [state |-> "S1", city |-> "P", days |-> 3, travel_style |-> "cultural",
     start_time |-> T0900, stay_loc |-> <<>>]

\* the call has ended: its arguments and locals are gone
GenGone ==
    /\ city_pois' = <<>>
    /\ days' = 0
    /\ travel_style' = ""
    /\ start_time_str' = <<>>
    /\ stay_coord' = None
    /\ day_hours_budget' = 0
    /\ center' = None
    /\ remaining_pois' = <<>>
    /\ itinerary' = <<>>
    /\ day' = 0
    /\ time_used' = 0
    /\ cursor' = None
    /\ day_pois' = <<>>
    /\ pc' = "idle"

\* lines 190-191: a selected day the itinerary does not hold becomes day 1
Rendered(sess) ==
    IF sess.itinerary # None /\ sess.selected_day \notin DOMAIN sess.itinerary
    THEN [sess EXCEPT !.selected_day = 1]
    ELSE sess

\* a run of the script with the sidebar at p (lines 140-177, then the page): when
\* p differs from last_params it is remembered and the stay is parsed; a stay
\* that does not parse is reported and the page is drawn, otherwise
\* generate_itinerary is called
ScriptRun(p) ==
    /\ app_pc = "idle"
    /\ session.last_params = <<>> => p = Defaults
    /\ current_params' = p
    /\ IF p = session.last_params
       THEN /\ session' = Rendered(session)
            /\ UNCHANGED <<gen_args, gen_locals, app_pc>>
       ELSE IF StayRaises(p.stay_loc)
       THEN /\ session' = Rendered([session EXCEPT !.last_params = p])
            /\ UNCHANGED <<gen_args, gen_locals, app_pc>>
       ELSE /\ session' = [session EXCEPT !.last_params = p]
            /\ city_pois' = POIS_BY_STATE[p.state][p.city]
            /\ days' = p.days
            /\ travel_style' = p.travel_style
            /\ start_time_str' = p.start_time
            /\ stay_coord' = ParseStay(p.stay_loc)
            /\ day_hours_budget' = DefaultBudget
            /\ pc' = "call"
            /\ app_pc' = "generating"
            /\ UNCHANGED <<center, remaining_pois, itinerary, day, time_used, cursor, day_pois>>
    /\ UNCHANGED <<generated_from, generated_names>>

\* lines 173-175: the itinerary returned is held, day 1 selected, the script rerun
Store ==
    /\ app_pc = "generating"
    /\ pc = "returned"
    /\ session' = [session EXCEPT !.itinerary = itinerary, !.selected_day = 1]
    /\ generated_from' = current_params
    /\ generated_names' = [d \in 1..Len(itinerary) |-> Names(itinerary[d])]
    /\ app_pc' = "idle"
    /\ GenGone
    /\ UNCHANGED current_params

\* lines 176-177: the exception is reported; the page is drawn with what is held
Fail ==
    /\ app_pc = "generating"
    /\ pc \in Raised
    /\ session' = Rendered(session)
    /\ app_pc' = "idle"
    /\ GenGone
    /\ UNCHANGED <<current_params, generated_from, generated_names>>

\* lines 193-194: the day chosen in the select box
SelectDay(d) ==
    /\ app_pc = "idle"
    /\ session.itinerary # None
    /\ d \in DOMAIN session.itinerary
    /\ session' = [session EXCEPT !.selected_day = d]
    /\ UNCHANGED <<gen_args, gen_locals, current_params, app_pc, generated_from, generated_names>>

\* the variant that copies the lower entry up instead of exchanging the two
OverwriteAdjacent(list, i) == [list EXCEPT ![i] = list[i + 1]]

\* a[i], a[i+1] = a[i+1], a[i]
SwapAdjacent(list, i) == [list EXCEPT ![i] = list[i + 1], ![i + 1] = list[i]]

\* del a[i]
DeleteAt(list, i) == SubSeq(list, 1, i - 1) \o SubSeq(list, i + 1, Len(list))

\* the list a button leaves in the itinerary: day_acts was changed in place, and
\* recompute_day_times replaces it unless strptime raises on the sidebar's start time
Restamped(day_acts) ==
    IF strptime(current_params.start_time) = ValueError
    THEN day_acts
    ELSE recompute_day_times(day_acts, current_params.start_time)

day_acts == session.itinerary[session.selected_day]

Edited(list) ==
    /\ session' = [session EXCEPT !.itinerary[session.selected_day] = Restamped(list)]
    /\ UNCHANGED <<gen_args, gen_locals, current_params, app_pc, generated_from, generated_names>>

\* the buttons of the card at position idx (1 is the first card) are drawn
Card(idx) ==
    /\ app_pc = "idle"
    /\ session.itinerary # None
    /\ session.selected_day \in DOMAIN session.itinerary
    /\ idx \in 1..Len(day_acts)

\* lines 215-219
MoveUp(idx) ==
    /\ Card(idx)
    /\ idx > 1
    /\ Edited(SwapAdjacent(day_acts, idx - 1))

\* lines 220-224
MoveDown(idx) ==
    /\ Card(idx)
    /\ idx < Len(day_acts)
    /\ Edited(SwapAdjacent(day_acts, idx))

\* lines 225-228
Remove(idx) ==
    /\ Card(idx)
    /\ Edited(DeleteAt(day_acts, idx))

Init ==
    /\ session = [itinerary |-> None, selected_day |-> 1, last_params |-> <<>>]
    /\ current_params = Defaults
    /\ app_pc = "idle"
    /\ generated_from = None
    /\ generated_names = <<>>
    /\ city_pois = <<>>
    /\ days = 0
    /\ travel_style = ""
    /\ start_time_str = <<>>
    /\ stay_coord = None
    /\ day_hours_budget = 0
    /\ pc = "idle"
    /\ NoLocals

Next ==
    \/ \E p \in Params : ScriptRun(p)
    \/ GenNext
    \/ Store
    \/ Fail
    \/ \E d \in DOMAIN session.itinerary : SelectDay(d)
    \/ \E idx \in 1..MaxPool : MoveUp(idx) \/ MoveDown(idx) \/ Remove(idx)

Spec == Init /\ [][Next]_vars

----------------------------------------------------------------------------
(* Properties of generate_itinerary, checked under SpecGen *)

RECURSIVE Flatten(_, _)
Flatten(lists, i) == IF i = 0 THEN <<>> ELSE Flatten(lists, i - 1) \o lists[i]

NoRepeat(s) == \A i, j \in 1..Len(s) : i # j => s[i] # s[j]

Stopped == pc \in {"returned"} \cup Raised

\* the start time parses and the stay is None or a pair: what the generator assumes
WellFormedArgs ==
    /\ strptime(start_time_str) # ValueError
    /\ stay_coord = None \/ Len(stay_coord) >= 2

StartCursor == [lat |-> center.lat, lon |-> center.lon, name |-> "Start"]

\* the travel into each entry of a day's list, the first from the center, plus its duration
RECURSIVE DayCost(_, _)
DayCost(list, i) ==
    IF i = 0 THEN 0
    ELSE DayCost(list, i - 1)
         + travel_time_hours(IF i = 1 THEN StartCursor ELSE list[i - 1], list[i])
         + Duration(list[i])

\* C1: the itinerary generate_itinerary returns holds no POI name twice, neither
\* in two days nor twice in one day, whatever the pool (also one that holds two
\* records of one name).
C1_NoNameTwice ==
    pc = "returned" => NoRepeat(Names(Flatten(itinerary, Len(itinerary))))

\* C1's case: a pool with two records named alike, and POIs scheduled on two days
C1_Witness ==
    /\ pc = "returned"
    /\ ~NoRepeat(Names(city_pois))
    /\ \E d1, d2 \in 1..Len(itinerary) : d1 # d2 /\ itinerary[d1] # <<>> /\ itinerary[d2] # <<>>

\* C2: after every pick of a day, and for every day of the returned itinerary,
\* the sum of travel time into each scheduled POI (the first leg from the
\* center) plus its duration is at most day_hours_budget.
C2_WithinBudget ==
    /\ pc \in {"loop", "stamp"} => DayCost(day_pois, Len(day_pois)) <= day_hours_budget
    /\ pc = "returned" =>
          \A d \in 1..Len(itinerary) : DayCost(itinerary[d], Len(itinerary[d])) <= day_hours_budget

\* C2's case: a day of several POIs was returned and the budget kept a POI out
C2_Witness ==
    /\ pc = "returned"
    /\ remaining_pois # <<>>
    /\ \E d \in 1..Len(itinerary) : Len(itinerary[d]) >= 2

\* C3: in every list recompute_day_times returned, the end_time string of an
\* entry is less than or equal to the start_time string of the next entry.
C3_TimesNeverDecrease ==
    pc \in {"day", "returned"} =>
        \A d \in 1..Len(itinerary) : \A i \in 1..(Len(itinerary[d]) - 1) :
            StrLeq(itinerary[d][i].end_time, itinerary[d][i + 1].start_time)

\* C4: with an empty pool, days >= 1 and a start time that parses,
\* generate_itinerary returns {1: [], ..., days: []} and raises nothing, with
\* or without a stay.
C4_EmptyPoolReturnsEmptyDays ==
    (city_pois = <<>> /\ days >= 1 /\ WellFormedArgs /\ Stopped) =>
        (pc = "returned" /\ itinerary = [d \in 1..days |-> <<>>])

\* the scenario of C5: pool [A, B], style family, one day from 09:00, 8.5 hours, no stay
Scenario ==
    /\ city_pois = <<PoiA, PoiB>>
    /\ travel_style = "family"
    /\ days = 1
    /\ start_time_str = T0900
    /\ stay_coord = None
    /\ day_hours_budget = DefaultBudget

ScenarioOrder ==
    /\ Names(itinerary[1]) = <<"A", "B">>
    /\ itinerary[1][1].start_time = T0900
    /\ itinerary[1][1].end_time = <<"1", "0", ":", "0", "0">>

\* C5 as claimed: in the scenario Day 1 = [A, B], A from 09:00 to 10:00, and B
\* starts at A's end plus the travel time alone, 13:42, and ends at 14:42.
C5_ScenarioAsClaimed ==
    (Scenario /\ pc = "returned") =>
        /\ ScenarioOrder
        /\ itinerary[1][2].start_time = <<"1", "3", ":", "4", "2">>
        /\ itinerary[1][2].end_time = <<"1", "4", ":", "4", "2">>

\* C5 as amended: in the scenario Day 1 = [A, B], A from 09:00 to 10:00, and B
\* starts at A's end plus the 30-minute buffer plus the travel time, 14:12, and
\* ends at 15:12.
C5_ScenarioWithBuffer ==
    (Scenario /\ pc = "returned") =>
        /\ ScenarioOrder
        /\ itinerary[1][2].start_time = <<"1", "4", ":", "1", "2">>
        /\ itinerary[1][2].end_time = <<"1", "5", ":", "1", "2">>

\* C5's case: the scenario has run to its return
C5_Witness == Scenario /\ pc = "returned" /\ Len(itinerary[1]) = 2

Distance(cur, p) == haversine(cur.lat, cur.lon, p.lat, p.lon)

FitsFrom(used, cur, p) ==
    used + travel_time_hours(cur, p) + Duration(p) <= day_hours_budget

\* q comes before p in the order (score descending, distance from cur ascending)
RanksBefore(q, p, cur) ==
    \/ score_poi(q, travel_style) > score_poi(p, travel_style)
    \/ /\ score_poi(q, travel_style) = score_poi(p, travel_style)
       /\ Distance(cur, q) < Distance(cur, p)

\* C8: at every pick the picked POI fits the rest of the day's budget, and no
\* POI of the pool that fits too has a higher score, or the same score and a
\* smaller distance from the cursor.
C8_PicksFirstFitting ==
    [][(pc = "loop" /\ Len(day_pois') = Len(day_pois) + 1) =>
          LET picked == day_pois'[Len(day_pois')]
          IN /\ FitsFrom(time_used, cursor, picked)
             /\ \A i \in 1..Len(remaining_pois) :
                    FitsFrom(time_used, cursor, remaining_pois[i])
                        => ~RanksBefore(remaining_pois[i], picked, cursor)]_vars

\* C8's case: the last pick passed over a POI that fitted and was nearer, for
\* one of a higher score
C8_Witness ==
    /\ pc = "loop"
    /\ day_pois # <<>>
    /\ LET n == Len(day_pois)
           picked == day_pois[n]
           before == IF n = 1 THEN StartCursor ELSE day_pois[n - 1]
           used == time_used - travel_time_hours(before, picked) - Duration(picked)
       IN \E i \in 1..Len(remaining_pois) :
              /\ FitsFrom(used, before, remaining_pois[i])
              /\ Distance(before, remaining_pois[i]) < Distance(before, picked)
              /\ score_poi(remaining_pois[i], travel_style) < score_poi(picked, travel_style)

\* C9: when a day's selection loop has ended, no POI left in the pool fits:
\* each has time_used + travel from the cursor + duration > day_hours_budget.
C9_DayEndsWhenNothingFits ==
    pc = "stamp" =>
        \A i \in 1..Len(remaining_pois) : ~FitsFrom(time_used, cursor, remaining_pois[i])

\* C9's case: a day ended after a pick with POIs left in the pool
C9_Witness == pc = "stamp" /\ day_pois # <<>> /\ remaining_pois # <<>>

\* C10: for every pool and day count (the start time and the stay well-formed),
\* when generate_itinerary has stopped it has returned an itinerary whose keys
\* are 1..days.
C10_RunsToCompletion ==
    (WellFormedArgs /\ Stopped) => (pc = "returned" /\ DOMAIN itinerary = 1..days)

\* the part of C10 about the loops: an iteration of a day's selection loop ends
\* the day or takes at least one POI out of the pool
LoopProgress ==
    [][pc = "loop" => (pc' = "stamp" \/ Len(remaining_pois') < Len(remaining_pois))]_vars

----------------------------------------------------------------------------
(* Properties of the script, checked under Spec *)

\* C6: once a run of the script has seen parameters that differ from
\* last_params and has ended, the itinerary held in the session is the one
\* generated from those parameters, also when parsing or generating failed.
C6_HeldItineraryIsFresh ==
    (app_pc = "idle" /\ session.last_params # <<>>) =>
        (session.itinerary # None /\ generated_from = session.last_params)

\* an entry without the times recompute_day_times stamps on it
Unstamped(e) == [k \in DOMAIN e \ {"start_time", "end_time"} |-> e[k]]
Plain(list) == [i \in 1..Len(list) |-> Unstamped(list[i])]

Count(s, x) == Cardinality({i \in 1..Len(s) : s[i] = x})
SubBag(a, b) == \A i \in 1..Len(a) : Count(a, a[i]) <= Count(b, a[i])

\* b is a with the entries at i and i + 1 exchanged, and nothing else changed
IsSwap(a, b, i) ==
    /\ Len(b) = Len(a)
    /\ b[i] = a[i + 1]
    /\ b[i + 1] = a[i]
    /\ \A j \in 1..Len(a) : j \notin {i, i + 1} => b[j] = a[j]

\* b is a without its entry at i
IsDelete(a, b, i) ==
    /\ Len(b) = Len(a) - 1
    /\ \A j \in 1..Len(b) : b[j] = IF j < i THEN a[j] ELSE a[j + 1]

\* the selected day stays selected and every other day's list is as it was
OtherDaysKept ==
    /\ session'.selected_day = session.selected_day
    /\ DOMAIN session'.itinerary = DOMAIN session.itinerary
    /\ \A d \in DOMAIN session.itinerary :
           d # session.selected_day => session'.itinerary[d] = session.itinerary[d]

DayNamesWithinGenerated ==
    session.itinerary # None =>
        \A d \in DOMAIN session.itinerary : SubBag(Names(session.itinerary[d]), generated_names[d])

ButtonEffects ==
    \A idx \in 1..MaxPool :
        LET a == Plain(day_acts)
            b == Plain(session'.itinerary[session.selected_day])
        IN /\ MoveUp(idx) => OtherDaysKept /\ IsSwap(a, b, idx - 1)
           /\ MoveDown(idx) => OtherDaysKept /\ IsSwap(a, b, idx)
           /\ Remove(idx) => OtherDaysKept /\ IsDelete(a, b, idx)

\* C7: whatever buttons are pressed on a generated itinerary, each day's names
\* stay a sub-multiset of the names the day had when generated; move up and
\* move down exchange exactly the clicked entry and its neighbour, remove
\* deletes exactly the clicked entry, and every other day's list is unchanged.
C7_ButtonsOnlyReorderOrRemove ==
    [](DayNamesWithinGenerated) /\ [][ButtonEffects]_vars

\* C7's case: of the three entries a day was generated with, the middle one
\* was removed and the other two stand in the opposite order
C7_Witness ==
    /\ session.itinerary # None
    /\ \E d \in DOMAIN session.itinerary :
          /\ Len(generated_names[d]) = 3
          /\ Names(session.itinerary[d]) = <<generated_names[d][3], generated_names[d][1]>>

=============================================================================
